---- MODULE Spec2Model ----
(***************************************************************************)
(* Model of detector-python.py: the standalone and combinatorial PII       *)
(* rules, the redaction transforms, process_record and the batch loop of   *)
(* main.                                                                   *)
(*                                                                         *)
(* A Python str is a sequence of one-character strings.  The characters    *)
(* used are ASCII, so \d, \w and \s are the ASCII digit, word and          *)
(* whitespace classes.                                                     *)
(***************************************************************************)
EXTENDS Integers, Sequences, FiniteSets, TLC

----------------------------------------------------------------------------
(* Bounds *)

MaxFields == 2

MaxRows == 3

MaxLen == 5

----------------------------------------------------------------------------
(* Characters and character classes of the regular expressions *)

Digit == {"0", "1", "2", "3", "4", "5", "6", "7", "8", "9"}

Upper == {"A", "B", "C", "D", "E", "F", "G", "H", "I", "J", "K", "L", "M",
          "N", "O", "P", "Q", "R", "S", "T", "U", "V", "W", "X", "Y", "Z"}

Lower == {"a", "b", "c", "d", "e", "f", "g", "h", "i", "j", "k", "l", "m",
          "n", "o", "p", "q", "r", "s", "t", "u", "v", "w", "x", "y", "z"}

\* \w
WordChar == Digit \cup Upper \cup Lower \cup {"_"}

\* \s, and the separators of str.split(): the ASCII characters c with
\* c.isspace(), that is space, \t, \n, \x0b, \f, \r and \x1c to \x1f
SpaceChar == {" ", "\t", "\n", "", "\f", "\r", "", "", "", ""}

\* [\w.-]
UpiChar == WordChar \cup {".", "-"}

\* [a-zA-Z0-9._%+-]
EmailLocalChar == Digit \cup Upper \cup Lower \cup {".", "_", "%", "+", "-"}

\* [a-zA-Z0-9.-]
EmailDomainChar == Digit \cup Upper \cup Lower \cup {".", "-"}

----------------------------------------------------------------------------
(* Python string operations *)

Min(a, b) == IF a < b THEN a ELSE b

Max(a, b) == IF a > b THEN a ELSE b

\* value[:n]
Prefix(s, n) == SubSeq(s, 1, Min(n, Len(s)))

\* value[-n:]  (n > 0)
Suffix(s, n) == SubSeq(s, Max(1, Len(s) - n + 1), Len(s))

\* c * n ; a negative count gives the empty string
RECURSIVE Repeat(_, _)
Repeat(c, n) == IF n <= 0 THEN <<>> ELSE <<c>> \o Repeat(c, n - 1)

AllIn(s, class) == \A i \in 1..Len(s) : s[i] \in class

Count(s, c) == Cardinality({i \in 1..Len(s) : s[i] = c})

\* value.replace(c, "")
RECURSIVE Remove(_, _)
Remove(s, c) ==
    IF s = <<>> THEN <<>>
    ELSE IF Head(s) = c THEN Remove(Tail(s), c)
    ELSE <<Head(s)>> \o Remove(Tail(s), c)

\* value.split(sep) for a one-character separator: the list of parts
RECURSIVE SplitOn(_, _)
SplitOn(s, sep) ==
    IF \A i \in 1..Len(s) : s[i] # sep THEN <<s>>
    ELSE LET p == CHOOSE i \in 1..Len(s) :
                      s[i] = sep /\ \A j \in 1..(i - 1) : s[j] # sep
         IN  <<SubSeq(s, 1, p - 1)>> \o SplitOn(SubSeq(s, p + 1, Len(s)), sep)

\* value.split(): the maximal runs of non-whitespace characters
RECURSIVE SplitWhitespace(_)
SplitWhitespace(s) ==
    IF s = <<>> THEN <<>>
    ELSE IF Head(s) \in SpaceChar THEN SplitWhitespace(Tail(s))
    ELSE LET n == IF \A i \in 1..Len(s) : s[i] \notin SpaceChar
                  THEN Len(s)
                  ELSE (CHOOSE i \in 1..Len(s) :
                            s[i] \in SpaceChar
                            /\ \A j \in 1..(i - 1) : s[j] \notin SpaceChar) - 1
         IN  <<SubSeq(s, 1, n)>> \o SplitWhitespace(SubSeq(s, n + 1, Len(s)))

\* sep.join(parts)
RECURSIVE Join(_, _)
Join(parts, sep) ==
    IF parts = <<>> THEN <<>>
    ELSE IF Len(parts) = 1 THEN parts[1]
    ELSE parts[1] \o sep \o Join(Tail(parts), sep)

DigitChars == <<"0", "1", "2", "3", "4", "5", "6", "7", "8", "9">>

\* str(n) for an int
RECURSIVE IntToStr(_)
IntToStr(n) ==
    IF n < 0 THEN <<"-">> \o IntToStr(0 - n)
    ELSE IF n < 10 THEN <<DigitChars[n + 1]>>
    ELSE IntToStr(n \div 10) \o <<DigitChars[(n % 10) + 1]>>

----------------------------------------------------------------------------
(* Regular expressions: each operator is TRUE iff pattern.match(s) finds   *)
(* a match, that is a match starting at the first character of s.          *)

\* \b at offset p: exactly one of s[p], s[p+1] is a word character
WordBoundary(s, p) ==
    (p >= 1 /\ p <= Len(s) /\ s[p] \in WordChar)
        # (p + 1 <= Len(s) /\ s[p + 1] \in WordChar)

\* \d{n} at offset p
DigitsAt(s, p, n) ==
    p + n <= Len(s) /\ \A i \in (p + 1)..(p + n) : s[i] \in Digit

\* \s? at offset p: one is consumed when present (\s and \d are disjoint,
\* so backtracking to the empty alternative cannot succeed)
OptSpace(s, p) == IF p + 1 <= Len(s) /\ s[p + 1] \in SpaceChar THEN p + 1 ELSE p

\* the phone pattern without its closing \b: a pure prefix match
PHONE_REGEX_prefix_only(s) == WordBoundary(s, 0) /\ DigitsAt(s, 0, 10)

\* r'\b\d{10}\b'
PHONE_REGEX(s) ==
    WordBoundary(s, 0) /\ DigitsAt(s, 0, 10) /\ WordBoundary(s, 10)

\* r'\b\d{4}\s?\d{4}\s?\d{4}\b'
AADHAR_REGEX(s) ==
    /\ WordBoundary(s, 0)
    /\ DigitsAt(s, 0, 4)
    /\ LET p1 == OptSpace(s, 4)
       IN  /\ DigitsAt(s, p1, 4)
           /\ LET p2 == OptSpace(s, p1 + 4)
              IN  DigitsAt(s, p2, 4) /\ WordBoundary(s, p2 + 4)

\* r'\b[A-Z]\d{7}\b'
PASSPORT_REGEX(s) ==
    /\ WordBoundary(s, 0)
    /\ Len(s) >= 1 /\ s[1] \in Upper
    /\ DigitsAt(s, 1, 7)
    /\ WordBoundary(s, 8)

\* length of the longest run of characters of class starting at offset p
RECURSIVE RunLen(_, _, _)
RunLen(s, p, class) ==
    IF p + 1 <= Len(s) /\ s[p + 1] \in class
    THEN 1 + RunLen(s, p + 1, class) ELSE 0

\* r'[\w.-]+@[\w.-]+' ; '@' is outside the class, so the first run is the
\* whole of what precedes the '@'
UPI_REGEX(s) ==
    LET a == RunLen(s, 0, UpiChar)
    IN  /\ a >= 1
        /\ a + 2 <= Len(s)
        /\ s[a + 1] = "@"
        /\ s[a + 2] \in UpiChar

\* the pattern of EMAIL_REGEX between ^ and $, matched against all of s
EmailShape(s) ==
    /\ Count(s, "@") = 1
    /\ LET parts  == SplitOn(s, "@")
           local  == parts[1]
           domain == parts[2]
       IN  /\ Len(local) >= 1 /\ AllIn(local, EmailLocalChar)
           /\ Count(domain, ".") >= 1
           /\ LET labels == SplitOn(domain, ".")
                  tld    == labels[Len(labels)]
                  front  == SubSeq(domain, 1, Len(domain) - Len(tld) - 1)
              IN  /\ Len(tld) >= 2 /\ AllIn(tld, Upper \cup Lower)
                  /\ Len(front) >= 1 /\ AllIn(front, EmailDomainChar)

\* r'^[a-zA-Z0-9._%+-]+@[a-zA-Z0-9.-]+\.[a-zA-Z]{2,}$' ; $ also matches
\* just before a newline that ends the string
EMAIL_REGEX(s) ==
    \/ EmailShape(s)
    \/ (Len(s) >= 1 /\ s[Len(s)] = "\n" /\ EmailShape(SubSeq(s, 1, Len(s) - 1)))

----------------------------------------------------------------------------
(* Redaction functions *)

REDACTED_ID == <<"[", "R", "E", "D", "A", "C", "T", "E", "D", "_", "I", "D", "]">>

\* the phone transform keeping three leading characters
redact_phone_keep3(value) == Prefix(value, 3) \o Repeat("X", 6) \o Suffix(value, 2)

\* f"{value[:2]}XXXXXX{value[-2:]}"
redact_phone(value) == Prefix(value, 2) \o Repeat("X", 6) \o Suffix(value, 2)

\* f"{clean_value[:4]} XXXX {clean_value[-4:]}"
redact_aadhar(value) ==
    LET clean_value == Remove(value, " ")
    IN  Prefix(clean_value, 4) \o <<" ", "X", "X", "X", "X", " ">>
            \o Suffix(clean_value, 4)

\* value[0] and value[-1] raise IndexError on the empty string
redact_passport_raises(value) == Len(value) = 0

\* the passport transform masking every character between first and last
redact_passport_same_length(value) ==
    <<value[1]>> \o Repeat("X", Len(value) - 2) \o <<value[Len(value)]>>

\* f"{value[0]}XXXXXX{value[-1]}"
redact_passport(value) == <<value[1]>> \o Repeat("X", 6) \o <<value[Len(value)]>>

\* the generic-identifier transform with one more X in the local part
redact_generic_id_one_more_x(value) ==
    LET parts == SplitOn(value, "@")
    IN  IF Len(parts) # 2 THEN REDACTED_ID
        ELSE LET user   == parts[1]
                 domain == parts[2]
                 redacted_user ==
                     IF Len(user) > 2
                     THEN Prefix(user, 2) \o Repeat("X", Len(user) - 2)
                              \o <<user[Len(user)]>>
                     ELSE <<"X">>
             IN  redacted_user \o <<"@">> \o domain

redact_generic_id(value) ==
    LET parts == SplitOn(value, "@")
    IN  IF Len(parts) # 2 THEN REDACTED_ID
        ELSE LET user   == parts[1]
                 domain == parts[2]
                 redacted_user ==
                     IF Len(user) > 2
                     THEN Prefix(user, 2) \o Repeat("X", Len(user) - 3)
                              \o <<user[Len(user)]>>
                     ELSE <<"X">>
             IN  redacted_user \o <<"@">> \o domain

redact_name_part(p) ==
    IF Len(p) > 1 THEN <<p[1]>> \o Repeat("X", Len(p) - 1) ELSE p

redact_name(value) ==
    LET parts == SplitWhitespace(value)
        redacted_parts == [i \in 1..Len(parts) |-> redact_name_part(parts[i])]
    IN  Join(redacted_parts, <<" ">>)

\* f"[REDACTED_{len(value)}_CHARS]"
redact_text(value) ==
    <<"[", "R", "E", "D", "A", "C", "T", "E", "D", "_">>
        \o IntToStr(Len(value))
        \o <<"_", "C", "H", "A", "R", "S", "]">>

----------------------------------------------------------------------------
(* JSON values as Python objects.  Every value has the same shape: t is    *)
(* the type, s the characters of a str, n the number of an int (1 or 0 for *)
(* a bool), items the elements of a list of strings or the alternating     *)
(* keys and values of a dict of strings.                                   *)

StrVal(s) == [t |-> "str", s |-> s, n |-> 0, items |-> <<>>]

IntVal(n) == [t |-> "int", s |-> <<>>, n |-> n, items |-> <<>>]

BoolVal(b) == [t |-> "bool", s |-> <<>>, n |-> IF b THEN 1 ELSE 0, items |-> <<>>]

NoneVal == [t |-> "null", s |-> <<>>, n |-> 0, items |-> <<>>]

ListVal(items) == [t |-> "list", s |-> <<>>, n |-> 0, items |-> items]

DictVal(items) == [t |-> "dict", s |-> <<>>, n |-> 0, items |-> items]

\* repr(x) of a str without quotes, backslashes or control characters
Repr(x) == <<"'">> \o x \o <<"'">>

\* str(value)
PyStr(value) ==
    CASE value.t = "str"  -> value.s
      [] value.t = "int"  -> IntToStr(value.n)
      [] value.t = "bool" -> IF value.n = 1 THEN <<"T", "r", "u", "e">>
                             ELSE <<"F", "a", "l", "s", "e">>
      [] value.t = "null" -> <<"N", "o", "n", "e">>
      [] value.t = "list" ->
             <<"[">> \o Join([i \in 1..Len(value.items) |-> Repr(value.items[i])],
                             <<",", " ">>) \o <<"]">>
      [] value.t = "dict" ->
             <<"{">> \o Join([i \in 1..(Len(value.items) \div 2) |->
                                  Repr(value.items[2 * i - 1]) \o <<":", " ">>
                                      \o Repr(value.items[2 * i])],
                             <<",", " ">>) \o <<"}">>

\* bool(value): the truth value Python gives the object
Truthy(value) ==
    CASE value.t = "str"  -> Len(value.s) > 0
      [] value.t = "int"  -> value.n # 0
      [] value.t = "bool" -> value.n = 1
      [] value.t = "null" -> FALSE
      [] value.t = "list" -> Len(value.items) > 0
      [] value.t = "dict" -> Len(value.items) > 0

\* isinstance(value, str)
isinstance_str(value) == value.t = "str"

\* pattern.match(value) raises TypeError when value is not a str
match_raises(value) == value.t # "str"

----------------------------------------------------------------------------
(* PII definitions *)

STANDALONE_PII_FIELDS == {"phone", "contact", "aadhar", "passport", "upi_id"}

\* STANDALONE_PII_FIELDS[key].match(s)
StandaloneMatch(key, s) ==
    CASE key \in {"phone", "contact"} -> PHONE_REGEX(s)
      [] key = "aadhar"               -> AADHAR_REGEX(s)
      [] key = "passport"             -> PASSPORT_REGEX(s)
      [] key = "upi_id"               -> UPI_REGEX(s)

COMBINATORIAL_PII_FIELDS == <<"name", "email", "address", "device_id", "ip_address">>


----------------------------------------------------------------------------
(* process_record *)

\* pass 1, the condition under which a key is flagged and redacted
standalone_flagged(data, key) ==
    /\ isinstance_str(data[key])
    /\ key \in STANDALONE_PII_FIELDS
    /\ ~match_raises(data[key])
    /\ StandaloneMatch(key, data[key].s)

\* pass 1, the exception a key's step raises, "none" if it raises none
standalone_exc(data, key) ==
    IF isinstance_str(data[key]) /\ key \in STANDALONE_PII_FIELDS
    THEN IF match_raises(data[key]) THEN "TypeError"
         ELSE IF /\ key = "passport"
                 /\ StandaloneMatch(key, data[key].s)
                 /\ redact_passport_raises(data[key].s)
              THEN "IndexError"
              ELSE "none"
    ELSE "none"

\* pass 1, the dispatch on the key
standalone_redact(key, value) ==
    CASE key \in {"phone", "contact"} -> redact_phone(value)
      [] key = "aadhar"               -> redact_aadhar(value)
      [] key = "passport"             -> redact_passport(value)
      [] key = "upi_id"               -> redact_generic_id(value)

\* the eligibility test without the check for single names
combinatorial_eligible_any_name(data, key) ==
    /\ key \in DOMAIN data
    /\ Truthy(data[key])
    /\ ~(key = "email" /\ ~EMAIL_REGEX(PyStr(data[key])))

\* pass 2, the test that appends a key to combinatorial_pii_found
combinatorial_eligible(data, key) ==
    /\ key \in DOMAIN data
    /\ Truthy(data[key])
    /\ ~(key = "name" /\ Len(SplitWhitespace(PyStr(data[key]))) < 2)
    /\ ~(key = "email" /\ ~EMAIL_REGEX(PyStr(data[key])))

\* pass 2, the list built in the order of COMBINATORIAL_PII_FIELDS
combinatorial_pii_found(data) ==
    SelectSeq(COMBINATORIAL_PII_FIELDS, LAMBDA key : combinatorial_eligible(data, key))

\* the threshold taken one too low
threshold_met_at_one(found) == Len(found) >= 1

\* pass 3, the criterion: len(combinatorial_pii_found) >= 2
threshold_met(found) == Len(found) >= 2

\* pass 3, the dispatch on the key
combinatorial_redact(key, value) ==
    CASE key = "name"  -> redact_name(value)
      [] key = "email" -> redact_generic_id(value)
      [] key \in {"address", "ip_address", "device_id"} -> redact_text(value)

\* The result of process_record(data) for a dict data: the returned pair,
\* or the exception raised (exc # "none").
process_record(data) ==
    LET found   == combinatorial_pii_found(data)
        met     == threshold_met(found)
        comb    == IF met THEN {found[i] : i \in 1..Len(found)} ELSE {}
        alone   == {key \in DOMAIN data : standalone_flagged(data, key)}
        raising == {key \in DOMAIN data : standalone_exc(data, key) # "none"}
    IN  IF raising # {}
        THEN [redacted_data |-> data, is_pii_record |-> FALSE,
              exc |-> standalone_exc(data, CHOOSE key \in raising : TRUE)]
        ELSE [redacted_data |->
                  [key \in DOMAIN data |->
                      IF key \in comb
                      THEN StrVal(combinatorial_redact(key, PyStr(data[key])))
                      ELSE IF key \in alone
                      THEN StrVal(standalone_redact(key, data[key].s))
                      ELSE data[key]],
              is_pii_record |-> (alone # {} \/ met),
              exc |-> "none"]

----------------------------------------------------------------------------
(* The records process_record is applied to *)

NonStrings ==
    {IntVal(0), IntVal(123), NoneVal, BoolVal(TRUE),
     ListVal(<< <<"a">>, <<"b">> >>), DictVal(<< <<"a">>, <<"b">> >>)}

PhoneValues ==
    {StrVal(<<"9", "8", "7", "6", "5", "4", "3", "2", "1", "0">>),
     StrVal(<<"9", "8", "7", "6", "5", "4", "3", "2", "1", "0", "e", "x", "t", "r", "a">>),
     StrVal(<<"9", "8", "7", "6", "5", "4", "3", "2", "1", "0", " ", "e", "x", "t", "r", "a">>),
     StrVal(<<"9", "8", "7", "6", "5">>),
     StrVal(<<"9", "8", "7", "6", "5", "4", "3", "2", "1", "0", "1">>),
     StrVal(<<>>)}
        \cup {IntVal(123), NoneVal}

ContactValues ==
    {StrVal(<<"9", "8", "7", "6", "5", "4", "3", "2", "1", "0">>),
     StrVal(<<"9", "8", "7", "6", "5">>)}
        \cup {IntVal(123)}

AadharValues ==
    {StrVal(<<"1", "2", "3", "4", "\r", "5", "6", "7", "8", "\r", "9", "0", "1", "2">>),
     StrVal(<<"1", "2", "3", "4", "\f", "5", "6", "7", "8", "", "9", "0", "1", "2">>),
     StrVal(<<"1", "2", "3", "4", "5", "6", "7", "8", "9", "0", "1", "2">>),
     StrVal(<<"1", "2", "3", "4", " ", "5", "6", "7", "8", " ", "9", "0", "1", "2">>),
     StrVal(<<"1", "2", "3", "4", " ", "5", "6", "7", "8", "9", "0", "1", "2">>),
     StrVal(<<"1", "2", "3", "4", " ", " ", "5", "6", "7", "8", " ", "9", "0", "1", "2">>),
     StrVal(<<"1", "2", "3", "4", " ", "5", "6", "7", "8", " ", "9", "0", "1", "2", " ", "x">>),
     StrVal(<<"1", "2", "3", "4", "5", "6", "7", "8", "9", "0", "1">>)}
        \cup {IntVal(123)}

PassportValues ==
    {StrVal(<<"A", "1", "2", "3", "4", "5", "6", "7">>),
     StrVal(<<"A", "1", "2", "3", "4", "5", "6", "7", " ", "x">>),
     StrVal(<<"A", "1", "2", "3", "4", "5", "6", "7", "8">>),
     StrVal(<<"a", "1", "2", "3", "4", "5", "6", "7">>),
     StrVal(<<"A", "1", "2", "3", "4", "5", "6", "7", "x">>)}
        \cup {NoneVal}

UpiValues ==
    {StrVal(<<"u", "s", "e", "r", "@", "b", "a", "n", "k">>),
     StrVal(<<"a", "@", "b", "@", "c">>),
     StrVal(<<"a", "b">>),
     StrVal(<<"@", "b", "a", "n", "k">>),
     StrVal(<<"u", "-", "1", ".", "x", "@", "o", "k", " ", "y", "z">>)}
        \cup {IntVal(123)}

NameValues ==
    {StrVal(<<"J", "o", "h", "n", "\r", "S", "m", "i", "t", "h">>),
     StrVal(<<"J", "", "S">>),
     StrVal(<<"M", "a", "d", "o", "n", "n", "a">>),
     StrVal(<<"J", "a", "n", "e", " ", "D", "o", "e">>),
     StrVal(<<"A", " ", "B">>),
     StrVal(<<" ">>),
     StrVal(<<>>),
     StrVal(<<"J", "o", "h", "n", " ", " ", "S", "m", "i", "t", "h">>)}
        \cup NonStrings

EmailValues ==
    {StrVal(<<"j", "a", "n", "e", "@", "x", ".", "c", "o", "m">>),
     StrVal(<<"a", "b", "c", "@", "x", ".", "c", "o">>),
     StrVal(<<"a", "b", "@", "x", ".", "c", "o">>),
     StrVal(<<"j", "o", "h", "n", ".", "d", "o", "e", "@", "m", "a", "i", "l", ".", "c", "o", "m">>),
     StrVal(<<"b", "a", "d", "@", "x">>),
     StrVal(<<"a", "@", "b", "@", "c", ".", "c", "o", "m">>),
     StrVal(<<"j", "a", "n", "e", "@", "x", ".", "c", "o", "m", "\n">>),
     StrVal(<<>>),
     StrVal(<<"x", "@", "y", ".", "c">>)}
        \cup {IntVal(123), ListVal(<< <<"a">>, <<"b">> >>)}

AddressValues ==
    {StrVal(<<>>),
     StrVal(<<"1", "2", " ", "M", "a", "i", "n", " ", "S", "t">>),
     StrVal(<<"x">>)}
        \cup NonStrings

DeviceValues ==
    {StrVal(<<>>),
     StrVal(<<"D", "1">>)}
        \cup {IntVal(123), NoneVal}

IpValues ==
    {StrVal(<<"1", "0", ".", "0", ".", "0", ".", "1">>),
     StrVal(<<>>)}
        \cup {IntVal(0)}

CityValues ==
    {StrVal(<<"P", "u", "n", "e">>)}
        \cup {IntVal(123)}

FieldNames ==
    <<"phone", "contact", "aadhar", "passport", "upi_id",
      "name", "email", "address", "device_id", "ip_address", "city">>

ValuesOf(key) ==
    CASE key = "phone"      -> PhoneValues
      [] key = "contact"    -> ContactValues
      [] key = "aadhar"     -> AadharValues
      [] key = "passport"   -> PassportValues
      [] key = "upi_id"     -> UpiValues
      [] key = "name"       -> NameValues
      [] key = "email"      -> EmailValues
      [] key = "address"    -> AddressValues
      [] key = "device_id"  -> DeviceValues
      [] key = "ip_address" -> IpValues
      [] key = "city"       -> CityValues

EmptyDict == [key \in {} |-> NoneVal]

\* the dicts over FieldNames[i..] with at most n fields
RECURSIVE DictsFrom(_, _)
DictsFrom(i, n) ==
    IF i > Len(FieldNames) \/ n = 0 THEN {EmptyDict}
    ELSE DictsFrom(i + 1, n)
             \cup {(FieldNames[i] :> v) @@ d :
                       v \in ValuesOf(FieldNames[i]), d \in DictsFrom(i + 1, n - 1)}

\* the dicts of strings over fields[i..], with any number of fields
RECURSIVE StringDictsFrom(_, _)
StringDictsFrom(fields, i) ==
    IF i > Len(fields) THEN {EmptyDict}
    ELSE LET rest == StringDictsFrom(fields, i + 1)
         IN  rest \cup {(fields[i] :> v) @@ d :
                            v \in {x \in ValuesOf(fields[i]) : x.t = "str"},
                            d \in rest}

\* every combination of string values of the combinatorial fields, alone
\* or next to a phone
CombinatorialRecords == StringDictsFrom(COMBINATORIAL_PII_FIELDS \o <<"phone">>, 1)

Records == DictsFrom(1, MaxFields) \cup CombinatorialRecords

----------------------------------------------------------------------------
(* Strings used in several places *)

JOHN_DOE == <<"j", "o", "h", "n", ".", "d", "o", "e", "@", "m", "a", "i", "l", ".", "c", "o", "m">>

JOHN_DOE_6X == <<"j", "o", "X", "X", "X", "X", "X", "X", "e", "@", "m", "a", "i", "l", ".", "c", "o", "m">>

JOHN_DOE_5X == <<"j", "o", "X", "X", "X", "X", "X", "e", "@", "m", "a", "i", "l", ".", "c", "o", "m">>

ABC == <<"a", "b", "c", "@", "x", ".", "c", "o">>

PASSPORT == <<"A", "1", "2", "3", "4", "5", "6", "7", " ", "x">>

PHONE == <<"9", "8", "7", "6", "5", "4", "3", "2", "1", "0">>

AADHAR == <<"1", "2", "3", "4", " ", "5", "6", "7", "8", " ", "9", "0", "1", "2">>

NAME_CR == <<"J", "o", "h", "n", "\r", "S", "m", "i", "t", "h">>

AADHAR_FF == <<"1", "2", "3", "4", "\f", "5", "6", "7", "8", "", "9", "0", "1", "2">>

NAME == <<"A", " ", "B">>

----------------------------------------------------------------------------
(* The strings the redaction functions are applied to directly *)

RedactChars == {"a", "7", "@", ".", " "}

Strings ==
    UNION {[1..n -> RedactChars] : n \in 0..MaxLen}
        \cup {JOHN_DOE,
              ABC,
              PASSPORT,
              PHONE,
              AADHAR,
              NAME,
              NAME_CR,
              AADHAR_FF}

----------------------------------------------------------------------------
(* The input file of main: csv.DictReader rows.  A row is a function from  *)
(* the column names of the header to cells.  A cell is a str, or None for  *)
(* a row shorter than the header.  The text of a Data_json cell is         *)
(* represented by what json.loads makes of it: valid says whether it is    *)
(* JSON, kind the type of the decoded value, obj the dict when it is one.  *)

JsonText(valid, kind, obj) ==
    [cell |-> "str", valid |-> valid, kind |-> kind, obj |-> obj]

NoneCell == [cell |-> "None", valid |-> FALSE, kind |-> "none", obj |-> EmptyDict]

\* json.dumps(obj)
json_dumps(obj) == JsonText(TRUE, "object", obj)

\* the exception json.loads(cell) raises, "none" if it returns
json_loads_exc(cell) ==
    IF cell.cell = "None" THEN "TypeError"
    ELSE IF ~cell.valid THEN "JSONDecodeError"
    ELSE "none"

\* the value json.loads(cell) returns
json_loads(cell) == [kind |-> cell.kind, obj |-> cell.obj]

Payloads ==
    {json_dumps(EmptyDict),
     json_dumps("phone" :> StrVal(PHONE)),
     json_dumps(("name" :> StrVal(NAME)) @@ ("email" :> StrVal(ABC))),
     json_dumps(("city" :> StrVal(<<"P", "u", "n", "e">>)) @@ ("address" :> IntVal(123))),
     JsonText(TRUE, "array", EmptyDict),
     JsonText(TRUE, "number", EmptyDict),
     JsonText(FALSE, "none", EmptyDict),
     NoneCell}

Headers == {{"record_id", "Data_json"}, {"record_id"}, {"Data_json"}}

\* the rows of a file with the given header; the i-th row has record_id i
RowsOf(header, cells) ==
    [i \in 1..Len(cells) |->
        [col \in header |-> IF col = "record_id" THEN IntToStr(i) ELSE cells[i]]]

\* except (json.JSONDecodeError, KeyError)
CAUGHT == {"JSONDecodeError", "KeyError"}

\* the exception raised by the body of the loop for a row, "none" if the
\* row is written
row_exc(row) ==
    IF "record_id" \notin DOMAIN row THEN "KeyError"
    ELSE IF "Data_json" \notin DOMAIN row THEN "KeyError"
    ELSE IF json_loads_exc(row["Data_json"]) # "none"
         THEN json_loads_exc(row["Data_json"])
    ELSE IF json_loads(row["Data_json"]).kind # "object" THEN "AttributeError"
    ELSE process_record(json_loads(row["Data_json"]).obj).exc

\* the row passed to writer.writerow
written_row(row) ==
    LET r == process_record(json_loads(row["Data_json"]).obj)
    IN  [record_id |-> row["record_id"],
         redacted_data_json |-> json_dumps(r.redacted_data),
         is_pii |-> r.is_pii_record]

----------------------------------------------------------------------------
(* State *)

VARIABLES
    data,            \* process_record: the argument
    redacted_data,   \* process_record: the first component of the result
    is_pii_record,   \* process_record: the second component of the result
    exc,             \* the exception raised by the last call, or "none"
    called,          \* process_record has returned or raised
    value,           \* the argument of a redaction function
    fn,              \* the redaction function applied to value, or "none"
    result,          \* the string it returned
    reader,          \* main: the rows of the input file
    row_index,       \* main: the number of rows the loop has taken
    outfile,         \* main: the rows written after the header row
    processed_count, \* main: processed_count
    status           \* main: "running", "complete", or "aborted"

record_vars == <<data, redacted_data, is_pii_record, called>>

redact_vars == <<value, fn, result>>

main_vars == <<reader, row_index, outfile, processed_count, status>>

vars == <<data, redacted_data, is_pii_record, exc, called, value, fn, result,
          reader, row_index, outfile, processed_count, status>>

RecordIdle ==
    /\ data = EmptyDict
    /\ redacted_data = EmptyDict
    /\ is_pii_record = FALSE
    /\ called = FALSE

RedactIdle ==
    /\ value = <<>>
    /\ fn = "none"
    /\ result = <<>>

MainIdle ==
    /\ reader = <<>>
    /\ row_index = 0
    /\ outfile = <<>>
    /\ processed_count = 0
    /\ status = "complete"

----------------------------------------------------------------------------
(* process_record applied to one record *)

InitRecord ==
    /\ data \in Records
    /\ redacted_data = EmptyDict
    /\ is_pii_record = FALSE
    /\ exc = "none"
    /\ called = FALSE
    /\ RedactIdle
    /\ MainIdle

CallProcessRecord ==
    /\ ~called
    /\ LET r == process_record(data)
       IN  /\ redacted_data' = r.redacted_data
           /\ is_pii_record' = r.is_pii_record
           /\ exc' = r.exc
    /\ called' = TRUE
    /\ UNCHANGED <<data, redact_vars, main_vars>>

NextRecord == CallProcessRecord

SpecRecord == InitRecord /\ [][NextRecord]_vars

----------------------------------------------------------------------------
(* A redaction function applied to one string *)

InitRedact ==
    /\ value \in Strings
    /\ fn = "none"
    /\ result = <<>>
    /\ exc = "none"
    /\ RecordIdle
    /\ MainIdle

Call_redact_phone ==
    /\ fn = "none"
    /\ fn' = "redact_phone"
    /\ result' = redact_phone(value)
    /\ exc' = "none"
    /\ UNCHANGED <<value, record_vars, main_vars>>

Call_redact_aadhar ==
    /\ fn = "none"
    /\ fn' = "redact_aadhar"
    /\ result' = redact_aadhar(value)
    /\ exc' = "none"
    /\ UNCHANGED <<value, record_vars, main_vars>>

Call_redact_passport ==
    /\ fn = "none"
    /\ fn' = "redact_passport"
    /\ IF redact_passport_raises(value)
       THEN result' = <<>> /\ exc' = "IndexError"
       ELSE result' = redact_passport(value) /\ exc' = "none"
    /\ UNCHANGED <<value, record_vars, main_vars>>

Call_redact_generic_id ==
    /\ fn = "none"
    /\ fn' = "redact_generic_id"
    /\ result' = redact_generic_id(value)
    /\ exc' = "none"
    /\ UNCHANGED <<value, record_vars, main_vars>>

Call_redact_name ==
    /\ fn = "none"
    /\ fn' = "redact_name"
    /\ result' = redact_name(value)
    /\ exc' = "none"
    /\ UNCHANGED <<value, record_vars, main_vars>>

Call_redact_text ==
    /\ fn = "none"
    /\ fn' = "redact_text"
    /\ result' = redact_text(value)
    /\ exc' = "none"
    /\ UNCHANGED <<value, record_vars, main_vars>>

NextRedact ==
    \/ Call_redact_phone
    \/ Call_redact_aadhar
    \/ Call_redact_passport
    \/ Call_redact_generic_id
    \/ Call_redact_name
    \/ Call_redact_text

SpecRedact == InitRedact /\ [][NextRedact]_vars

----------------------------------------------------------------------------
(* main: the loop over the rows of the input file *)

Init ==
    /\ \E header \in Headers : \E n \in 0..MaxRows : \E cells \in [1..n -> Payloads] :
           reader = RowsOf(header, cells)
    /\ row_index = 0
    /\ outfile = <<>>
    /\ processed_count = 0
    /\ status = "running"
    /\ exc = "none"
    /\ RecordIdle
    /\ RedactIdle

\* an iteration whose body reaches writer.writerow
ProcessRow ==
    /\ status = "running"
    /\ row_index < Len(reader)
    /\ LET row == reader[row_index + 1]
       IN  /\ row_exc(row) = "none"
           /\ outfile' = Append(outfile, written_row(row))
    /\ processed_count' = processed_count + 1
    /\ row_index' = row_index + 1
    /\ UNCHANGED <<reader, status, exc, record_vars, redact_vars>>

\* an iteration whose body raises an exception the except clause catches
SkipMalformedRow ==
    /\ status = "running"
    /\ row_index < Len(reader)
    /\ row_exc(reader[row_index + 1]) \in CAUGHT
    /\ row_index' = row_index + 1
    /\ UNCHANGED <<reader, outfile, processed_count, status, exc,
                   record_vars, redact_vars>>

\* an iteration whose body raises an exception no except clause of main
\* catches: it propagates out of main
AbortBatch ==
    /\ status = "running"
    /\ row_index < Len(reader)
    /\ LET e == row_exc(reader[row_index + 1])
       IN  /\ e \notin CAUGHT \cup {"none"}
           /\ exc' = e
    /\ status' = "aborted"
    /\ row_index' = row_index + 1
    /\ UNCHANGED <<reader, outfile, processed_count, record_vars, redact_vars>>

\* the reader is exhausted
Complete ==
    /\ status = "running"
    /\ row_index = Len(reader)
    /\ status' = "complete"
    /\ UNCHANGED <<reader, row_index, outfile, processed_count, exc,
                   record_vars, redact_vars>>

Next ==
    \/ ProcessRow
    \/ SkipMalformedRow
    \/ AbortBatch
    \/ Complete

Spec == Init /\ [][Next]_vars

----------------------------------------------------------------------------
(* Vocabulary of the properties *)

CombinatorialFields ==
    {COMBINATORIAL_PII_FIELDS[i] : i \in 1..Len(COMBINATORIAL_PII_FIELDS)}

\* a field matches its standalone rule
MatchesStandaloneRule(d, key) ==
    key \in STANDALONE_PII_FIELDS /\ d[key].t = "str" /\ StandaloneMatch(key, d[key].s)

\* a combinatorial field is present, non-empty and passes its eligibility
\* check: a name has at least 2 whitespace-separated tokens, an email
\* matches the pattern of EMAIL_REGEX; the text of a value that is not a
\* string is what str() makes of it
Eligible(d, key) ==
    /\ key \in DOMAIN d
    /\ Truthy(d[key])
    /\ (key = "name" => Len(SplitWhitespace(PyStr(d[key]))) >= 2)
    /\ (key = "email" => EMAIL_REGEX(PyStr(d[key])))

EligibleFields(d) == {key \in CombinatorialFields : Eligible(d, key)}

AllStrings(d) == \A key \in DOMAIN d : d[key].t = "str"

\* the fields process_record flags: the standalone matches and, at the
\* threshold, the eligible combinatorial fields
FlaggedFields(d) ==
    {key \in DOMAIN d : MatchesStandaloneRule(d, key)}
        \cup (IF Cardinality(EligibleFields(d)) >= 2 THEN EligibleFields(d) ELSE {})

XXXXXX == <<"X", "X", "X", "X", "X", "X">>

\* 10 digits followed by any further characters
TenDigitsThenAnything(s) == Len(s) >= 10 /\ \A i \in 1..10 : s[i] \in Digit

\* the record without its fields that are not strings
StringFields(d) == [key \in {k \in DOMAIN d : d[k].t = "str"} |-> d[key]]

----------------------------------------------------------------------------
(* Properties of process_record, checked under SpecRecord *)

\* C1: a record in which no field matches a standalone rule and fewer than
\* 2 combinatorial fields are eligible is returned equal to the input on
\* every field, with foundPII = false.
C1_NonPiiPassthrough ==
    called =>
        ((/\ \A key \in DOMAIN data : ~MatchesStandaloneRule(data, key)
          /\ Cardinality(EligibleFields(data)) < 2)
            => /\ exc = "none"
               /\ redacted_data = data
               /\ is_pii_record = FALSE)

\* C1, its case: exactly one eligible combinatorial field, no standalone
\* match, and the record came back unchanged
C1_Witness ==
    /\ called
    /\ \A key \in DOMAIN data : ~MatchesStandaloneRule(data, key)
    /\ Cardinality(EligibleFields(data)) = 1
    /\ redacted_data = data
    /\ is_pii_record = FALSE

\* C2: a field whose value is not a string is never counted toward the
\* combinatorial threshold (the verdict and the string fields are those of
\* the record without it) and has the same value in the redacted record as
\* in the input.
C2_OnlyStringsClassified ==
    called =>
        LET r == process_record(StringFields(data))
        IN  /\ \A key \in DOMAIN data :
                   data[key].t # "str" => redacted_data[key] = data[key]
            /\ is_pii_record = r.is_pii_record
            /\ \A key \in DOMAIN StringFields(data) :
                   redacted_data[key] = r.redacted_data[key]

\* C3: for a record of string values, the eligible combinatorial fields are
\* redacted, and foundPII = true, when at least 2 of them are eligible; no
\* combinatorial field is redacted otherwise; a name of fewer than 2 tokens
\* is never eligible and never redacted.
C3_CombinatorialThreshold ==
    (called /\ AllStrings(data)) =>
        LET E == EligibleFields(data)
        IN  /\ exc = "none"
            /\ Cardinality(E) >= 2 =>
                   /\ is_pii_record = TRUE
                   /\ \A key \in E :
                          redacted_data[key]
                              = StrVal(combinatorial_redact(key, data[key].s))
            /\ \A key \in CombinatorialFields \cap DOMAIN data :
                   (Cardinality(E) < 2 \/ key \notin E)
                       => redacted_data[key] = data[key]
            /\ ("name" \in DOMAIN data
                    /\ Len(SplitWhitespace(data["name"].s)) < 2)
                   => redacted_data["name"] = data["name"]

\* C3, its case: a single-token name beside three or more eligible fields;
\* the eligible fields are replaced by their masked form, the name is not
C3_Witness ==
    /\ called
    /\ AllStrings(data)
    /\ "name" \in DOMAIN data
    /\ Len(SplitWhitespace(data["name"].s)) = 1
    /\ Cardinality(EligibleFields(data)) >= 3
    /\ is_pii_record = TRUE
    /\ redacted_data["name"] = data["name"]
    /\ \A key \in EligibleFields(data) :
           /\ redacted_data[key] = StrVal(combinatorial_redact(key, data[key].s))
           /\ redacted_data[key] # data[key]

\* C4 as stated: a phone or contact value of 10 digits followed by any
\* further characters is classified as a phone: foundPII = true and the
\* field is redacted.
C4_TrailingCharactersTolerated ==
    called =>
        \A key \in {"phone", "contact"} \cap DOMAIN data :
            (data[key].t = "str" /\ TenDigitsThenAnything(data[key].s))
                => /\ is_pii_record = TRUE
                   /\ redacted_data[key] = StrVal(redact_phone(data[key].s))

\* C4 as amended: a phone or contact value of 10 digits followed by further
\* characters is classified as a phone exactly when the character after the
\* 10 digits is not a word character; otherwise the field is left as it is.
C4_TrailingNonWordTolerated ==
    called =>
        \A key \in {"phone", "contact"} \cap DOMAIN data :
            (data[key].t = "str" /\ TenDigitsThenAnything(data[key].s))
                => LET s == data[key].s
                   IN  IF Len(s) = 10 \/ s[11] \notin WordChar
                       THEN /\ is_pii_record = TRUE
                            /\ redacted_data[key]
                                   = StrVal(<<s[1], s[2]>> \o XXXXXX
                                                \o <<s[Len(s) - 1], s[Len(s)]>>)
                       ELSE redacted_data[key] = data[key]

\* C4, its case: 10 digits, a character that is not a word character, more
\* characters, and the field was redacted
C4_Witness ==
    /\ called
    /\ "phone" \in DOMAIN data
    /\ data["phone"].t = "str"
    /\ TenDigitsThenAnything(data["phone"].s)
    /\ Len(data["phone"].s) > 11
    /\ data["phone"].s[11] \notin WordChar
    /\ is_pii_record = TRUE
    /\ redacted_data["phone"] # data["phone"]

\* C5: a record with a phone field of exactly 10 digits gives foundPII =
\* true and a phone value of the first 2 characters, "XXXXXX" and the last
\* 2 characters of the original, whatever its other fields are.
C5_TenDigitPhone ==
    called =>
        (("phone" \in DOMAIN data
            /\ data["phone"].t = "str"
            /\ Len(data["phone"].s) = 10
            /\ AllIn(data["phone"].s, Digit))
            => LET s == data["phone"].s
               IN  /\ is_pii_record = TRUE
                   /\ redacted_data["phone"]
                          = StrVal(<<s[1], s[2]>> \o XXXXXX \o <<s[9], s[10]>>))

\* C5, its case: a 10-digit phone next to another field
C5_Witness ==
    /\ called
    /\ "phone" \in DOMAIN data
    /\ data["phone"].t = "str"
    /\ Len(data["phone"].s) = 10
    /\ AllIn(data["phone"].s, Digit)
    /\ Cardinality(DOMAIN data) >= 2
    /\ is_pii_record = TRUE

\* C7 as stated: a flagged passport value is redacted to its first
\* character, an 'X' for every character between, and its last character,
\* so to a value of the same length.
C7_PassportSameLength ==
    called =>
        (("passport" \in DOMAIN data
            /\ data["passport"].t = "str"
            /\ PASSPORT_REGEX(data["passport"].s))
            => LET s == data["passport"].s
                   r == redacted_data["passport"].s
               IN  /\ Len(r) = Len(s)
                   /\ r[1] = s[1]
                   /\ r[Len(r)] = s[Len(s)]
                   /\ \A i \in 2..(Len(r) - 1) : r[i] = "X")

\* C7 as amended: a flagged passport value is redacted to its first
\* character, exactly six 'X' and its last character: 8 characters, the
\* length of the original only when the original has 8 characters.
C7_PassportSixX ==
    called =>
        (("passport" \in DOMAIN data
            /\ data["passport"].t = "str"
            /\ PASSPORT_REGEX(data["passport"].s))
            => LET s == data["passport"].s
                   r == redacted_data["passport"].s
               IN  /\ is_pii_record = TRUE
                   /\ r = <<s[1]>> \o XXXXXX \o <<s[Len(s)]>>
                   /\ Len(r) = 8
                   /\ (Len(r) = Len(s)) <=> (Len(s) = 8))

\* C7, its case: a flagged passport value with trailing characters
C7_Witness ==
    /\ called
    /\ "passport" \in DOMAIN data
    /\ data["passport"].t = "str"
    /\ PASSPORT_REGEX(data["passport"].s)
    /\ Len(data["passport"].s) > 8
    /\ Len(redacted_data["passport"].s) = 8

\* C8: process_record raises no exception on any record: a malformed field
\* value (one that is not a string, or a combinatorial value that fails its
\* eligibility check) is excluded from classification and stays as it is,
\* and a flagged upi_id value that does not split into exactly two parts on
\* '@' becomes "[REDACTED_ID]".
C8_NoExceptionMalformedExcluded ==
    called =>
        /\ exc = "none"
        /\ \A key \in DOMAIN data :
               data[key].t # "str" => redacted_data[key] = data[key]
        /\ \A key \in CombinatorialFields \cap DOMAIN data :
               (data[key].t = "str" /\ ~Eligible(data, key))
                   => redacted_data[key] = data[key]
        /\ ("upi_id" \in DOMAIN data
               /\ data["upi_id"].t = "str"
               /\ UPI_REGEX(data["upi_id"].s)
               /\ Count(data["upi_id"].s, "@") # 1)
               => redacted_data["upi_id"] = StrVal(REDACTED_ID)

\* C10: every field process_record flags has a redacted value different
\* from its original value.
C10_FlaggedValueChanges ==
    called =>
        \A key \in FlaggedFields(data) : redacted_data[key] # data[key]

----------------------------------------------------------------------------
(* Properties of redact_generic_id, checked under SpecRedact *)

\* the rule of the generic-identifier transform, position by position
GenericIdRule ==
    IF Count(value, "@") = 1
    THEN LET at == CHOOSE i \in 1..Len(value) : value[i] = "@"
             n  == at - 1
         IN  IF n > 2
             THEN /\ Len(result) = Len(value)
                  /\ result[1] = value[1]
                  /\ result[2] = value[2]
                  /\ \A i \in 3..(n - 1) : result[i] = "X"
                  /\ result[n] = value[n]
                  /\ \A i \in at..Len(value) : result[i] = value[i]
             ELSE result = <<"X">> \o SubSeq(value, at, Len(value))
    ELSE result = REDACTED_ID

\* C6 as stated: on a value with exactly one '@' the transform keeps the
\* domain, keeps the first 2 and the last character of a local part longer
\* than 2 and puts 'X' for each of the others (a local part of at most 2
\* becomes "X"); any other value gives the placeholder; and
\* "john.doe@mail.com" becomes "joXXXXXXe@mail.com".
C6_GenericIdWithExample ==
    fn = "redact_generic_id" =>
        /\ GenericIdRule
        /\ value = JOHN_DOE => result = JOHN_DOE_6X

\* C6 as amended: the same rule, and "john.doe@mail.com" becomes
\* "joXXXXXe@mail.com".
C6_GenericIdRule ==
    fn = "redact_generic_id" =>
        /\ GenericIdRule
        /\ value = JOHN_DOE => result = JOHN_DOE_5X

\* C6, its case: the example of the spec
C6_Witness ==
    /\ fn = "redact_generic_id"
    /\ value = JOHN_DOE
    /\ result = JOHN_DOE_5X

----------------------------------------------------------------------------
(* Properties of main, checked under Spec *)

\* a row whose payload parses
Parses(row) ==
    /\ "record_id" \in DOMAIN row
    /\ "Data_json" \in DOMAIN row
    /\ json_loads_exc(row["Data_json"]) = "none"

RecordIds(rows) == [i \in 1..Len(rows) |-> rows[i]["record_id"]]

\* C9: the batch loop never aborts, and when it has run it has written one
\* row, in the order of the input, for each input row whose payload parses.
C9_BatchNeverAborts ==
    /\ status # "aborted"
    /\ status = "complete"
           => RecordIds(outfile) = RecordIds(SelectSeq(reader, Parses))

====
